---- MODULE Spec2Model ----
(***************************************************************************)
(* strand: a declarative plugin manager.  One run of the binary            *)
(* (src/main.rs: main) together with the install tasks it spawns           *)
(* (src/lib.rs: install_plugins, Plugin::install_plugin).                  *)
(*                                                                         *)
(* An optional value (Rust Option<T>, a YAML key that may be missing) is a *)
(* sequence of length 0 or 1.  A path is the sequence of its components.   *)
(* A URL is the sequence of the pieces the format string concatenates.     *)
(***************************************************************************)
EXTENDS Integers, Sequences, FiniteSets, TLC

VARIABLES
    opts,        \* Opts: [config_location, cmd] as parsed from the command line
    pc,          \* position of main
    file,        \* the config file on disk
    file0,       \* history: the config file when the run started
    config,      \* the Config value main holds
    dir,         \* the filesystem node at config.plugin_dir
    dir0,        \* history: that node when the run started
    tasks,       \* the spawned install tasks, in spawn order
    joinIdx,     \* install_plugins: index of the task the for loop awaits
    result,      \* what install_plugins returned: [tag, idx]
    exit,        \* process exit: [code, by]; code -1 while running
    out,         \* lines printed on stdout
    errOrder,    \* history: indices of the tasks that produced an Err, in time order
    log          \* history: the steps main has taken, in order

vars == <<opts, pc, file, file0, config, dir, dir0, tasks, joinIdx, result,
          exit, out, errOrder, log>>

\* Longest plugin list of a config file at the start of a run.
MaxPlugins == 2

None == <<>>

Some(x) == <<x>>

(***************************************************************************)
(* Plugin Spec model (lib.rs 65-157)                                       *)
(***************************************************************************)
GitProvider == {"GitHub", "Bitbucket"}

\* FromStr for GitProvider: the spelling the command line accepts.
from_str(s) ==
    IF s = "github" THEN Some("GitHub")
    ELSE IF s = "bitbucket" THEN Some("Bitbucket")
    ELSE None

GitRepo(provider, user, repo, git_ref) ==
    [tag |-> "Git", provider |-> provider, user |-> user, repo |-> repo,
     git_ref |-> git_ref, url |-> ""]

ArchivePlugin(url) ==
    [tag |-> "Archive", provider |-> "", user |-> "", repo |-> "",
     git_ref |-> None, url |-> url]

\* Opts.cmd = None: no subcommand.
NoCmd ==
    [tag |-> "None", provider |-> "", user |-> "", repo |-> "",
     git_ref |-> None, url |-> ""]

\* Mutant: the ref of the spec is not used, the URL always names master.
DisplayGitRepoMaster(p) ==
    IF p.provider = "GitHub"
    THEN <<"https://codeload.github.com/", p.user, "/", p.repo, "/tar.gz/", "master">>
    ELSE <<"https://bitbucket.org/", p.user, "/", p.repo, "/get/", "master", ".tar.gz">>

\* impl fmt::Display for GitRepo
DisplayGitRepo(p) ==
    LET git_ref == IF p.git_ref # None THEN p.git_ref[1] ELSE "master"
    IN  IF p.provider = "GitHub"
        THEN <<"https://codeload.github.com/", p.user, "/", p.repo, "/tar.gz/", git_ref>>
        ELSE <<"https://bitbucket.org/", p.user, "/", p.repo, "/get/", git_ref, ".tar.gz">>

\* impl fmt::Display for ArchivePlugin
DisplayArchivePlugin(p) == <<p.url>>

\* impl fmt::Display for Plugin
Display(p) ==
    IF p.tag = "Git" THEN DisplayGitRepo(p) ELSE DisplayArchivePlugin(p)

(***************************************************************************)
(* YAML form of a plugin entry: a mapping whose keys may be missing.       *)
(***************************************************************************)
\* Mutant: git_ref is not written.
SerializePluginNoRef(p) ==
    IF p.tag = "Git"
    THEN [provider |-> Some(p.provider), user |-> Some(p.user), repo |-> Some(p.repo),
          git_ref |-> None, url |-> None]
    ELSE [provider |-> None, user |-> None, repo |-> None, git_ref |-> None,
          url |-> Some(p.url)]

\* #[derive(Serialize)] of Plugin (untagged): the fields of the variant.
SerializePlugin(p) ==
    IF p.tag = "Git"
    THEN [provider |-> Some(p.provider), user |-> Some(p.user), repo |-> Some(p.repo),
          git_ref |-> p.git_ref, url |-> None]
    ELSE [provider |-> None, user |-> None, repo |-> None, git_ref |-> None,
          url |-> Some(p.url)]

\* #[derive(Deserialize)] of GitRepo: provider must name a variant of GitProvider.
IsGitRepo(e) ==
    /\ e.provider # None
    /\ e.provider[1] \in GitProvider
    /\ e.user # None
    /\ e.repo # None

\* #[derive(Deserialize)] of ArchivePlugin
IsArchivePlugin(e) == e.url # None

\* #[serde(untagged)]: the first variant that matches, in declaration order.
DeserializePlugin(e) ==
    IF IsGitRepo(e) THEN Some(GitRepo(e.provider[1], e.user[1], e.repo[1], e.git_ref))
    ELSE IF IsArchivePlugin(e) THEN Some(ArchivePlugin(e.url[1]))
    ELSE None

(***************************************************************************)
(* Path Resolver (lib.rs 11-63)                                            *)
(***************************************************************************)
\* What dirs::home_dir() gives when it gives something.
HomeDir == <<"/", "home", "u">>

\* get_config_dir() joined with "config.yaml" (main.rs 20-21).
ConfigPath == <<"/", "home", "u", ".config", "strand", "config.yaml">>

\* Mutant: a string prefix test, true of a first component that begins with ~.
StartsWithTildePrefix(path) == Len(path) > 0 /\ path[1] \in {"~", "~foo"}

\* Path::starts_with("~"): the first component is exactly ~.
StartsWithTilde(path) == Len(path) > 0 /\ path[1] = "~"

expand_path(path) ==
    IF StartsWithTilde(path) THEN HomeDir \o Tail(path) ELSE path

(***************************************************************************)
(* The environment of a run: the command line, the config file, the        *)
(* plugin directory and the archives the network serves.                   *)
(***************************************************************************)
\* install-git --provider bitbucket --user u --repo b --git-ref v1
CmdGit == GitRepo(from_str("bitbucket")[1], "u", "b", Some("v1"))

\* install-tar --url https://host/t.tar.gz
CmdTar == ArchivePlugin("https://host/t.tar.gz")

Cmds == {NoCmd, CmdGit, CmdTar}

\* Entries of a config file: two written by an earlier save, and the entry
\* of the documented example, written by hand.
EntryA == SerializePlugin(GitRepo("GitHub", "u", "a", None))

EntryT == SerializePlugin(CmdTar)

EntryDoc ==
    [provider |-> Some("github"), user |-> Some("someuser"), repo |-> Some("somerepo"),
     git_ref |-> Some("main"), url |-> None]

Entries == {EntryA, EntryT, EntryDoc}

RECURSIVE SeqsUpTo(_, _)
SeqsUpTo(S, n) ==
    IF n = 0 THEN {<<>>}
    ELSE LET shorter == SeqsUpTo(S, n - 1)
         IN  shorter \cup {Append(s, x) : s \in {t \in shorter : Len(t) = n - 1}, x \in S}

PluginDirs == {<<"~", "plugins">>, <<"/", "srv", "plugins">>}

AbsentFile == [state |-> "absent", plugin_dir |-> <<>>, plugins |-> <<>>]

\* A file truncated by a write that failed after File::create.
EmptyFile == [state |-> "empty", plugin_dir |-> <<>>, plugins |-> <<>>]

YamlFile(plugin_dir, plugins) ==
    [state |-> "yaml", plugin_dir |-> plugin_dir, plugins |-> plugins]

Files ==
    {AbsentFile} \cup
    {YamlFile(d, ps) : d \in PluginDirs, ps \in SeqsUpTo(Entries, MaxPlugins)}

\* Paths below the plugin directory; "" is the content of a path that does not exist.
Paths == {"a/x", "a/y", "b/x", "old/f"}

NoFiles == [p \in Paths |-> ""]

StaleFiles == [p \in Paths |-> IF p \in {"a/x", "old/f"} THEN "old" ELSE ""]

AbsentDir == [kind |-> "absent", files |-> NoFiles]

EmptyDir == [kind |-> "dir", files |-> NoFiles]

Dirs ==
    {AbsentDir, EmptyDir, [kind |-> "file", files |-> NoFiles],
     [kind |-> "dir", files |-> StaleFiles]}

\* The tar entries the response body of surf::get(url) unpacks to.
Archive(url) ==
    IF url = Display(GitRepo("GitHub", "u", "a", None))
    THEN <<[path |-> "a/x", data |-> "A"], [path |-> "a/y", data |-> "A"]>>
    ELSE IF url = Display(CmdGit)
    THEN <<[path |-> "b/x", data |-> "B"]>>
    ELSE <<[path |-> "a/x", data |-> "T"]>>

(***************************************************************************)
(* Config Store (lib.rs 178-192, main.rs 34)                               *)
(***************************************************************************)
NoConfig == [loaded |-> FALSE, plugin_dir |-> <<>>, plugins |-> <<>>]

\* yaml::from_str::<Config>: every entry must deserialize.
Parses(f) ==
    /\ f.state = "yaml"
    /\ \A i \in 1..Len(f.plugins) : DeserializePlugin(f.plugins[i]) # None

\* get_config on a file that parses.
get_config(f) ==
    [loaded |-> TRUE,
     plugin_dir |-> expand_path(f.plugin_dir),
     plugins |-> [i \in 1..Len(f.plugins) |-> DeserializePlugin(f.plugins[i])[1]]]

\* yaml::to_string(&config), as fs::write puts it on disk.
to_string(c) ==
    YamlFile(c.plugin_dir, [i \in 1..Len(c.plugins) |-> SerializePlugin(c.plugins[i])])

(***************************************************************************)
(* The run                                                                 *)
(***************************************************************************)
Running == exit.code = -1

Exit(code, by) == [code |-> code, by |-> by]

NoResult == [tag |-> "none", idx |-> 0]

Init ==
    /\ opts \in [config_location : BOOLEAN, cmd : Cmds]
    /\ pc = "start"
    /\ file \in Files
    /\ file0 = file
    /\ config = NoConfig
    /\ dir \in Dirs
    /\ dir0 = dir
    /\ tasks = <<>>
    /\ joinIdx = 1
    /\ result = NoResult
    /\ exit = Exit(-1, "none")
    /\ out = {}
    /\ errOrder = <<>>
    /\ log = <<>>

\* main.rs 20-21: get_config_dir() found the config directory.
GetConfigDirOk ==
    /\ Running /\ pc = "start"
    /\ pc' = "resolved"
    /\ log' = Append(log, "get_config_dir")
    /\ UNCHANGED <<opts, dir0, file, file0, config, dir, tasks, joinIdx, result,
                   exit, out, errOrder>>

\* lib.rs 35-38: no config directory, process::exit(1).
GetConfigDirExit ==
    /\ Running /\ pc = "start"
    /\ exit' = Exit(1, "get_config_dir")
    /\ log' = Append(log, "get_config_dir_err")
    /\ UNCHANGED <<opts, dir0, pc, file, file0, config, dir, tasks, joinIdx, result,
                   out, errOrder>>

\* main.rs 25-28: --config-location prints the path and returns Ok.
ConfigLocation ==
    /\ Running /\ pc = "resolved" /\ opts.config_location
    /\ out' = out \cup {ConfigPath}
    /\ exit' = Exit(0, "main")
    /\ log' = Append(log, "print")
    /\ UNCHANGED <<opts, dir0, pc, file, file0, config, dir, tasks, joinIdx, result,
                   errOrder>>

\* Mutant: the config is loaded before the flag is looked at.
GetConfigOkDespiteFlag ==
    /\ Running /\ pc = "resolved"
    /\ Parses(file)
    /\ config' = get_config(file)
    /\ pc' = "loaded"
    /\ log' = Append(log, "read")
    /\ UNCHANGED <<opts, dir0, file, file0, dir, tasks, joinIdx, result, exit, out,
                   errOrder>>

\* main.rs 30: get_config read, parsed and expanded the config.
GetConfigOk ==
    /\ Running /\ pc = "resolved" /\ ~opts.config_location
    /\ Parses(file)
    /\ config' = get_config(file)
    /\ pc' = "loaded"
    /\ log' = Append(log, "read")
    /\ UNCHANGED <<opts, dir0, file, file0, dir, tasks, joinIdx, result, exit, out,
                   errOrder>>

\* lib.rs 187-188: the file cannot be read or does not parse; main returns the Err.
GetConfigErr ==
    /\ Running /\ pc = "resolved" /\ ~opts.config_location
    /\ ~Parses(file)
    /\ exit' = Exit(1, "main")
    /\ log' = Append(log, "read_err")
    /\ UNCHANGED <<opts, dir0, pc, file, file0, config, dir, tasks, joinIdx, result,
                   out, errOrder>>

\* lib.rs 189, 49, 16-19: expanding ~ finds no home directory, process::exit(1).
GetConfigHomeExit ==
    /\ Running /\ pc = "resolved" /\ ~opts.config_location
    /\ Parses(file) /\ StartsWithTilde(file.plugin_dir)
    /\ exit' = Exit(1, "get_home_dir")
    /\ log' = Append(log, "read")
    /\ UNCHANGED <<opts, dir0, pc, file, file0, config, dir, tasks, joinIdx, result,
                   out, errOrder>>

\* main.rs 32-33: the subcommand's plugin is pushed onto config.plugins.
PushPlugin ==
    /\ Running /\ pc = "loaded" /\ opts.cmd # NoCmd
    /\ config' = [config EXCEPT !.plugins = Append(@, opts.cmd)]
    /\ pc' = "pushed"
    /\ log' = Append(log, "push")
    /\ UNCHANGED <<opts, dir0, file, file0, dir, tasks, joinIdx, result, exit, out,
                   errOrder>>

\* Mutant: the config is saved whether or not a subcommand pushed a plugin.
AtSaveAlways == pc = "pushed" \/ (pc = "loaded" /\ opts.cmd = NoCmd)

\* main.rs 32-34: the write is inside the if let, after the push.
AtSave == pc = "pushed"

\* main.rs 34: fs::write stored the serialized config.
WriteConfigOk ==
    /\ Running /\ AtSave
    /\ file' = to_string(config)
    /\ pc' = "saved"
    /\ log' = Append(log, "write")
    /\ UNCHANGED <<opts, dir0, file0, config, dir, tasks, joinIdx, result, exit, out,
                   errOrder>>

\* Mutant: the Err of fs::write is dropped and main goes on.
WriteConfigErrIgnored ==
    /\ Running /\ AtSave
    /\ file' \in {file, EmptyFile}
    /\ pc' = "saved"
    /\ log' = Append(log, "write_err")
    /\ UNCHANGED <<opts, dir0, file0, config, dir, tasks, joinIdx, result, exit, out,
                   errOrder>>

\* main.rs 34: fs::write failed, before or after truncating the file; main
\* returns the Err.
WriteConfigErr ==
    /\ Running /\ AtSave
    /\ file' \in {file, EmptyFile}
    /\ exit' = Exit(1, "main")
    /\ log' = Append(log, "write_err")
    /\ UNCHANGED <<opts, dir0, pc, file0, config, dir, tasks, joinIdx, result, out,
                   errOrder>>

\* Mutant: the reset does not wait for the save of the pushed plugin.
AtResetUnsaved ==
    \/ pc \in {"pushed", "saved"}
    \/ pc = "loaded" /\ opts.cmd = NoCmd

\* main at line 38: the config is loaded and, with a subcommand, saved.
AtReset ==
    \/ pc = "saved"
    \/ pc = "loaded" /\ opts.cmd = NoCmd

\* Path::exists
exists(d) == d.kind # "absent"

\* Mutant: a directory is left in place, only a file is removed.
remove_file_only(d) ==
    IF d.kind = "dir" THEN d ELSE [d EXCEPT !.kind = "absent"]

\* main.rs 44-52: remove_path that returned Ok: remove_dir_all of a
\* directory, remove_file of anything else.
remove_path(d) ==
    IF d.kind = "dir"
    THEN [kind |-> "absent", files |-> NoFiles]
    ELSE [d EXCEPT !.kind = "absent"]

\* main.rs 59: fs::create_dir_all that returned Ok: a missing directory is
\* created, an existing one is left as it is.
create_dir_all(d) ==
    IF d.kind = "absent" THEN [d EXCEPT !.kind = "dir"] ELSE d

\* main.rs 54-62: ensure_empty_dir that returned Ok.
\* Mutant: the path is created when missing, what exists is kept.
ensure_dir(d) == create_dir_all(d)

ensure_empty_dir(d) ==
    create_dir_all(IF exists(d) THEN remove_path(d) ELSE d)

\* Mutant: an existing directory is kept as it is, only a missing one is created.
EnsureEmptyDirKeeps ==
    /\ Running /\ AtReset
    /\ dir' = IF dir.kind = "dir" THEN dir ELSE EmptyDir
    /\ pc' = "install"
    /\ log' = Append(log, "reset")
    /\ UNCHANGED <<opts, dir0, file, file0, config, tasks, joinIdx, result, exit, out,
                   errOrder>>

\* main.rs 54-62: ensure_empty_dir removed what was at the path and created
\* the directory.
EnsureEmptyDirOk ==
    /\ Running /\ AtReset
    /\ dir' = ensure_empty_dir(dir)
    /\ pc' = "install"
    /\ log' = Append(log, "reset")
    /\ UNCHANGED <<opts, dir0, file, file0, config, tasks, joinIdx, result, exit, out,
                   errOrder>>

\* main.rs 44-52, 56: remove_path failed; remove_dir_all may have removed
\* some of the content already.  main returns the Err.
EnsureEmptyDirRemoveErr ==
    /\ Running /\ AtReset
    /\ dir.kind # "absent"
    /\ \E gone \in SUBSET {p \in Paths : dir.files[p] # ""} :
         dir' = [dir EXCEPT !.files = [p \in Paths |-> IF p \in gone THEN "" ELSE @[p]]]
    /\ exit' = Exit(1, "main")
    /\ log' = Append(log, "reset_err")
    /\ UNCHANGED <<opts, dir0, pc, file, file0, config, tasks, joinIdx, result, out,
                   errOrder>>

\* main.rs 59: create_dir_all failed after the removal; main returns the Err.
EnsureEmptyDirCreateErr ==
    /\ Running /\ AtReset
    /\ dir' = AbsentDir
    /\ exit' = Exit(1, "main")
    /\ log' = Append(log, "reset_err")
    /\ UNCHANGED <<opts, dir0, pc, file, file0, config, tasks, joinIdx, result, out,
                   errOrder>>

(***************************************************************************)
(* Installer (lib.rs 159-176, 194-218)                                     *)
(***************************************************************************)
Task(plugin) == [plugin |-> plugin, st |-> "fetching", k |-> 0]

Spawned == Len(tasks) = Len(config.plugins)

\* lib.rs 208-211: task::spawn of the next plugin's install_plugin.
SpawnTask ==
    /\ Running /\ pc = "install" /\ ~Spawned
    /\ tasks' = Append(tasks, Task(config.plugins[Len(tasks) + 1]))
    /\ log' = Append(log, "spawn")
    /\ UNCHANGED <<opts, dir0, pc, file, file0, config, dir, joinIdx, result, exit,
                   out, errOrder>>

\* lib.rs 164-165: the response body arrived.
FetchOk(i) ==
    /\ Running /\ tasks[i].st = "fetching"
    /\ tasks' = [tasks EXCEPT ![i].st = "unpacking"]
    /\ UNCHANGED <<opts, dir0, pc, file, file0, config, dir, joinIdx, result, exit,
                   out, errOrder, log>>

\* Mutant: the failed fetch is reported but the process is not ended.
FetchExitForgotten(i) ==
    /\ Running /\ tasks[i].st = "fetching"
    /\ tasks' = [tasks EXCEPT ![i].st = "fetch_failed"]
    /\ UNCHANGED <<opts, dir0, pc, file, file0, config, dir, joinIdx, result, exit,
                   out, errOrder, log>>

\* Mutant: the failed fetch restores the config file before it exits.
FetchExitRollback(i) ==
    /\ Running /\ tasks[i].st = "fetching"
    /\ tasks' = [tasks EXCEPT ![i].st = "fetch_failed"]
    /\ exit' = Exit(1, "install_plugin")
    /\ file' = file0
    /\ UNCHANGED <<opts, dir0, pc, file0, config, dir, joinIdx, result, out,
                   errOrder, log>>

\* lib.rs 166-169: the fetch failed, process::exit(1) inside the task.
FetchExit(i) ==
    /\ Running /\ tasks[i].st = "fetching"
    /\ tasks' = [tasks EXCEPT ![i].st = "fetch_failed"]
    /\ exit' = Exit(1, "install_plugin")
    /\ UNCHANGED <<opts, dir0, pc, file, file0, config, dir, joinIdx, result, out,
                   errOrder, log>>

\* Mutant: an entry is unpacked only to a path that does not exist yet.
UnpackEntryNoClobber(i) ==
    LET archive == Archive(Display(tasks[i].plugin))
        entry == archive[tasks[i].k + 1]
    IN  /\ Running /\ tasks[i].st = "unpacking"
        /\ tasks[i].k < Len(archive)
        /\ dir.files[entry.path] = ""
        /\ dir' = [dir EXCEPT !.files[entry.path] = entry.data]
        /\ tasks' = [tasks EXCEPT ![i].k = @ + 1]
        /\ UNCHANGED <<opts, dir0, pc, file, file0, config, joinIdx, result, exit,
                       out, errOrder, log>>

\* Mutant: unpacking an entry replaces the content of the directory.
UnpackEntryAlone(i) ==
    LET archive == Archive(Display(tasks[i].plugin))
        entry == archive[tasks[i].k + 1]
    IN  /\ Running /\ tasks[i].st = "unpacking"
        /\ tasks[i].k < Len(archive)
        /\ dir' = [dir EXCEPT !.files = [NoFiles EXCEPT ![entry.path] = entry.data]]
        /\ tasks' = [tasks EXCEPT ![i].k = @ + 1]
        /\ UNCHANGED <<opts, dir0, pc, file, file0, config, joinIdx, result, exit,
                       out, errOrder, log>>

\* lib.rs 200: archive.unpack writes the next entry below the directory.
UnpackEntry(i) ==
    LET archive == Archive(Display(tasks[i].plugin))
        entry == archive[tasks[i].k + 1]
    IN  /\ Running /\ tasks[i].st = "unpacking"
        /\ tasks[i].k < Len(archive)
        /\ dir' = [dir EXCEPT !.files[entry.path] = entry.data]
        /\ tasks' = [tasks EXCEPT ![i].k = @ + 1]
        /\ UNCHANGED <<opts, dir0, pc, file, file0, config, joinIdx, result, exit,
                       out, errOrder, log>>

\* lib.rs 200, 171: archive.unpack failed on the next entry (malformed stream
\* or failed write); the task's result is the Err.
UnpackErr(i) ==
    /\ Running /\ tasks[i].st = "unpacking"
    /\ tasks[i].k < Len(Archive(Display(tasks[i].plugin)))
    /\ tasks' = [tasks EXCEPT ![i].st = "err"]
    /\ errOrder' = Append(errOrder, i)
    /\ UNCHANGED <<opts, dir0, pc, file, file0, config, dir, joinIdx, result, exit,
                   out, log>>

\* lib.rs 172-174: every entry is unpacked; the task prints and its result is Ok.
InstallPluginOk(i) ==
    /\ Running /\ tasks[i].st = "unpacking"
    /\ tasks[i].k = Len(Archive(Display(tasks[i].plugin)))
    /\ tasks' = [tasks EXCEPT ![i].st = "ok"]
    /\ out' = out \cup {<<"Installed">> \o Display(tasks[i].plugin)}
    /\ UNCHANGED <<opts, dir0, pc, file, file0, config, dir, joinIdx, result, exit,
                   errOrder, log>>

Joining == pc = "install" /\ Spawned

\* Mutant: the loop takes the task that failed first, when one has failed.
NextToAwaitFailed == IF errOrder # <<>> THEN errOrder[1] ELSE joinIdx

\* The for loop of install_plugins takes the tasks in spawn order.
NextToAwait == joinIdx

\* Mutant: the loop is woken by the last task only.
AwaitOkLastOnly ==
    /\ Running /\ Joining
    /\ NextToAwait = Len(tasks) /\ tasks[NextToAwait].st = "ok"
    /\ joinIdx' = joinIdx + 1
    /\ UNCHANGED <<opts, dir0, pc, file, file0, config, dir, tasks, result, exit, out,
                   errOrder, log>>

\* lib.rs 213-215: the awaited task finished with Ok; on to the next.
AwaitOk ==
    /\ Running /\ Joining
    /\ NextToAwait <= Len(tasks) /\ tasks[NextToAwait].st = "ok"
    /\ joinIdx' = joinIdx + 1
    /\ UNCHANGED <<opts, dir0, pc, file, file0, config, dir, tasks, result, exit, out,
                   errOrder, log>>

\* Mutant: the Err of the awaited task is dropped and the loop goes on.
AwaitErrIgnored ==
    /\ Running /\ Joining
    /\ NextToAwait <= Len(tasks) /\ tasks[NextToAwait].st = "err"
    /\ joinIdx' = joinIdx + 1
    /\ UNCHANGED <<opts, dir0, pc, file, file0, config, dir, tasks, result, exit, out,
                   errOrder, log>>

\* lib.rs 214: the awaited task finished with Err; ? returns it at once.
AwaitErr ==
    /\ Running /\ Joining
    /\ NextToAwait <= Len(tasks) /\ tasks[NextToAwait].st = "err"
    /\ result' = [tag |-> "err", idx |-> NextToAwait]
    /\ pc' = "returned"
    /\ UNCHANGED <<opts, dir0, file, file0, config, dir, tasks, joinIdx, exit, out,
                   errOrder, log>>

\* Mutant: the loop stops one task short.
AllAwaitedButLast == joinIdx >= Len(tasks)

\* lib.rs 213: the for loop has taken every task.
AllAwaited == joinIdx > Len(tasks)

\* lib.rs 217: every task was awaited; install_plugins returns Ok.
InstallPluginsOk ==
    /\ Running /\ Joining
    /\ AllAwaited
    /\ result' = [tag |-> "ok", idx |-> 0]
    /\ pc' = "returned"
    /\ UNCHANGED <<opts, dir0, file, file0, config, dir, tasks, joinIdx, exit, out,
                   errOrder, log>>

\* main.rs 39-41: main returns what install_plugins returned; the process
\* ends, and with it every task still running.
MainReturn ==
    /\ Running /\ pc = "returned"
    /\ exit' = Exit(IF result.tag = "ok" THEN 0 ELSE 1, "main")
    /\ UNCHANGED <<opts, dir0, pc, file, file0, config, dir, tasks, joinIdx, result,
                   out, errOrder, log>>

Next ==
    \/ GetConfigDirOk
    \/ GetConfigDirExit
    \/ ConfigLocation
    \/ GetConfigOk
    \/ GetConfigErr
    \/ GetConfigHomeExit
    \/ PushPlugin
    \/ WriteConfigOk
    \/ WriteConfigErr
    \/ EnsureEmptyDirOk
    \/ EnsureEmptyDirRemoveErr
    \/ EnsureEmptyDirCreateErr
    \/ SpawnTask
    \/ \E i \in 1..Len(tasks) : FetchOk(i)
    \/ \E i \in 1..Len(tasks) : FetchExit(i)
    \/ \E i \in 1..Len(tasks) : UnpackEntry(i)
    \/ \E i \in 1..Len(tasks) : UnpackErr(i)
    \/ \E i \in 1..Len(tasks) : InstallPluginOk(i)
    \/ AwaitOk
    \/ AwaitErr
    \/ InstallPluginsOk
    \/ MainReturn

Spec == Init /\ [][Next]_vars

(***************************************************************************)
(* Properties                                                              *)
(***************************************************************************)
Happened(e) == \E n \in 1..Len(log) : log[n] = e

Terminated == exit.code # -1

Finished(i) == tasks[i].st \in {"ok", "err"}

ArchiveOf(i) == Archive(Display(tasks[i].plugin))

PathsOf(i) == {ArchiveOf(i)[n].path : n \in 1..Len(ArchiveOf(i))}

\* The steps of a run with a subcommand whose config loaded, in order.
SubcommandLog ==
    <<"get_config_dir", "read", "push", "write", "reset">>
        \o [n \in 1..Len(config.plugins) |-> "spawn"]

\* log follows expected, except that its last step may be the failure of
\* the step expected there.
Follows(expected) ==
    /\ Len(log) <= Len(expected)
    /\ \A n \in 1..Len(log) :
         \/ log[n] = expected[n]
         \/ /\ n = Len(log)
            /\ <<expected[n], log[n]>> \in
                 {<<"write", "write_err">>, <<"reset", "reset_err">>}

C1_State ==
    (opts.cmd # NoCmd /\ config.loaded) =>
        /\ Follows(SubcommandLog)
        /\ Happened("push") =>
             config.plugins = Append(get_config(file0).plugins, opts.cmd)
        /\ tasks # <<>> =>
             /\ file = to_string(config)
             /\ dir.kind = "dir"
             /\ \A i \in 1..Len(tasks) : tasks[i].plugin = config.plugins[i]
        /\ pc = "returned" => Len(tasks) = Len(config.plugins)

C1_Step ==
    file' # file =>
        /\ tasks = <<>>
        /\ ~Happened("reset") /\ ~Happened("reset_err")
        /\ log' = Append(log, "write") \/ log' = Append(log, "write_err")

\* C1: in a run with a subcommand whose config loads, main pushes the plugin,
\* writes the config file, resets the plugin directory and only then spawns
\* one task per entry of the list, the new one included; no step writes the
\* config file once the reset has begun or a task exists.
C1_PushSaveResetInstall == []C1_State /\ [][C1_Step]_vars

C1_Witness ==
    /\ opts.cmd # NoCmd
    /\ Spawned /\ Len(tasks) >= 2
    /\ tasks[Len(tasks)].plugin = opts.cmd
    /\ file = to_string(config) /\ file # file0

\* C2 as stated: install_plugins has returned only if every task it spawned
\* has finished.
C2_ReturnsAfterAllTasks ==
    pc = "returned" => \A i \in 1..Len(tasks) : Finished(i)

\* C2, amended: install_plugins returns Ok only once every task has finished
\* with Ok; it returns Err(i) once the tasks before i have finished with Ok
\* and task i with Err, whatever the tasks after i are doing.
C2_ReturnsAfterAwaitedTasks ==
    pc = "returned" =>
        /\ Len(tasks) = Len(config.plugins)
        /\ result.tag = "ok" => \A i \in 1..Len(tasks) : tasks[i].st = "ok"
        /\ result.tag = "err" =>
             /\ result.idx \in 1..Len(tasks)
             /\ tasks[result.idx].st = "err"
             /\ \A i \in 1..(result.idx - 1) : tasks[i].st = "ok"
        /\ result.tag # "none"

C2_Witness ==
    /\ pc = "returned" /\ result.tag = "err"
    /\ \E i \in 1..Len(tasks) : i > result.idx /\ tasks[i].st = "unpacking"

\* C3 as stated: the error install_plugins returns is the error of the task
\* that failed first in time.
C3_ReturnsFirstErrorInTime ==
    result.tag = "err" => result.idx = errOrder[1]

\* C3, amended: the error install_plugins returns is the error of the failed
\* task that comes first in the list, whether or not it failed first in time.
C3_ReturnsFirstErrorInList ==
    result.tag = "err" =>
        /\ \E n \in 1..Len(errOrder) : errOrder[n] = result.idx
        /\ \A n \in 1..Len(errOrder) : result.idx <= errOrder[n]

C3_Witness ==
    /\ result.tag = "err"
    /\ Len(errOrder) >= 2
    /\ errOrder[1] # result.idx

\* Task i has unpacked every entry of its archive and the directory holds them.
Extracted(i) ==
    /\ tasks[i].st = "ok"
    /\ \A n \in 1..Len(ArchiveOf(i)) :
         dir.files[ArchiveOf(i)[n].path] = ArchiveOf(i)[n].data

\* No other task's archive has a path of the archive of task i.
Independent(i) ==
    \A j \in 1..Len(tasks) : j # i => PathsOf(i) \cap PathsOf(j) = {}

\* C4: two tasks whose archives share no path (with each other or with a
\* third task), both fetched and unpacked without error, leave the entries of
\* both archives in the plugin directory, in every interleaving.
C4_IndependentPluginsBothExtracted ==
    \A i, j \in 1..Len(tasks) :
        (/\ i # j
         /\ tasks[i].st = "ok" /\ tasks[j].st = "ok"
         /\ Independent(i) /\ Independent(j))
        => Extracted(i) /\ Extracted(j)

C4_Witness ==
    /\ exit = Exit(0, "main")
    /\ Len(tasks) = 2
    /\ Independent(1) /\ Extracted(1) /\ Extracted(2)

FetchFailed(i) == tasks[i].st = "fetch_failed"

NoFetchFailed == \A i \in 1..Len(tasks) : ~FetchFailed(i)

\* The config loaded (and, with a subcommand, was saved), the directory was
\* reset, and every configured plugin was fetched and unpacked.
FullInstall ==
    /\ config.loaded
    /\ opts.cmd # NoCmd => (Happened("write") /\ file = to_string(config))
    /\ Happened("reset")
    /\ Len(tasks) = Len(config.plugins)
    /\ \A i \in 1..Len(tasks) :
         /\ tasks[i].plugin = config.plugins[i]
         /\ tasks[i].st = "ok"
         /\ tasks[i].k = Len(ArchiveOf(i))

\* A failed fetch ended the process with code 1 inside the task, and is not
\* the error install_plugins returned.
FetchFailureExits ==
    \A i \in 1..Len(tasks) :
        FetchFailed(i) =>
            /\ exit = Exit(1, "install_plugin")
            /\ ~(result.tag = "err" /\ result.idx = i)

\* C5 as stated: the exit code is 0 only after a full install, and a failed
\* fetch ends the process with code 1 inside its task.
C5_ExitZeroOnlyAfterFullInstall ==
    /\ exit.code = 0 => FullInstall
    /\ FetchFailureExits

\* C5, amended: in a run without --config-location the exit code is 0 only
\* after a full install (with --config-location it is 0 without any of it);
\* a failed fetch ends the process with code 1 inside its task.
C5_ExitZeroOnlyAfterFullInstallUnlessLocation ==
    /\ (exit.code = 0 /\ ~opts.config_location) => FullInstall
    /\ FetchFailureExits

C5_Witness ==
    /\ pc = "returned" /\ result.tag = "err"
    /\ \E i \in 1..Len(tasks) : FetchFailed(i)
    /\ exit = Exit(1, "install_plugin")

\* C6: when an extraction fails and no fetch fails, the task ends with an Err
\* value and the process goes on; if the run ends, install_plugins has
\* returned an Err of a failed task to main and the exit code is 1, from main.
C6_ExtractionErrorPropagates ==
    (errOrder # <<>> /\ NoFetchFailed) =>
        /\ \A n \in 1..Len(errOrder) : tasks[errOrder[n]].st = "err"
        /\ exit.by \in {"none", "main"}
        /\ Terminated =>
             /\ exit = Exit(1, "main")
             /\ pc = "returned"
             /\ result.tag = "err"
             /\ tasks[result.idx].st = "err"

C6_Witness ==
    /\ exit = Exit(1, "main")
    /\ errOrder # <<>> /\ NoFetchFailed
    /\ \E i \in 1..Len(tasks) : tasks[i].st = "ok"

\* C7: once the write of the config file has failed the run is over with
\* exit code 1: the plugin directory is as it was at the start, no reset was
\* begun and no task was spawned.
C7_SaveErrorAbortsBeforeInstall ==
    Happened("write_err") =>
        /\ exit = Exit(1, "main")
        /\ log[Len(log)] = "write_err"
        /\ dir = dir0
        /\ tasks = <<>>
        /\ ~Happened("reset") /\ ~Happened("reset_err") /\ ~Happened("spawn")

C7_Witness ==
    /\ Happened("write_err")
    /\ dir0 = [kind |-> "dir", files |-> StaleFiles]
    /\ dir = dir0
    /\ file = EmptyFile

\* With --config-location: the config file is not read or written, the
\* directory is not reset, no task is spawned.
OnlyLocation ==
    /\ file = file0
    /\ dir = dir0
    /\ config = NoConfig
    /\ tasks = <<>>
    /\ \A n \in 1..Len(log) : log[n] \in {"get_config_dir", "get_config_dir_err", "print"}

\* C8 as stated: a run with --config-location prints the config path and
\* exits with success, and does nothing else.
C8_LocationPrintsAndSucceeds ==
    opts.config_location =>
        /\ OnlyLocation
        /\ Terminated => (exit.code = 0 /\ ConfigPath \in out)

\* C8, amended: a run with --config-location does nothing but resolve the
\* config directory and print; if the directory resolves it prints the path
\* and exits with 0, if not it exits with 1 from get_config_dir without
\* printing.
C8_LocationPrintsOrResolveFails ==
    opts.config_location =>
        /\ OnlyLocation
        /\ Terminated =>
             \/ exit = Exit(0, "main") /\ out = {ConfigPath} /\ pc = "resolved"
             \/ exit = Exit(1, "get_config_dir") /\ out = {} /\ pc = "start"

C8_Witness ==
    /\ opts.config_location /\ opts.cmd # NoCmd
    /\ file0 = AbsentFile
    /\ exit = Exit(0, "main") /\ out = {ConfigPath}

\* C9: a run with no subcommand and no --config-location never pushes a
\* plugin and never writes the config file, which stays as it was at the
\* start; when such a run ends with success the directory was reset and every
\* plugin of the file was fetched and unpacked.
C9_NoSubcommandKeepsConfigFile ==
    (opts.cmd = NoCmd /\ ~opts.config_location) =>
        /\ file = file0
        /\ ~Happened("push") /\ ~Happened("write") /\ ~Happened("write_err")
        /\ exit.code = 0 =>
             /\ FullInstall
             /\ config.plugins = get_config(file0).plugins

C9_Witness ==
    /\ opts.cmd = NoCmd /\ ~opts.config_location
    /\ exit = Exit(0, "main")
    /\ Len(tasks) = 2
    /\ StartsWithTilde(file0.plugin_dir)
    /\ file = file0

\* The content of path p was unpacked from the archive of a plugin of the list.
FromCurrentPlugin(p) ==
    \E i \in 1..Len(tasks) :
        /\ tasks[i].plugin = config.plugins[i]
        /\ \E n \in 1..Len(ArchiveOf(i)) :
             ArchiveOf(i)[n] = [path |-> p, data |-> dir.files[p]]

\* C10: a task exists only after the reset, and after a run in which every
\* plugin installed the plugin directory holds nothing but entries unpacked
\* from the archives of the plugins of the list.
C10_CleanSlate ==
    /\ tasks # <<>> =>
         \E n \in 1..Len(log) :
             /\ log[n] = "reset"
             /\ \A m \in 1..n : log[m] # "spawn"
    /\ (exit.code = 0 /\ ~opts.config_location) =>
         /\ dir.kind = "dir"
         /\ \A p \in Paths : dir.files[p] # "" => FromCurrentPlugin(p)

C10_Witness ==
    /\ exit = Exit(0, "main")
    /\ dir0 = [kind |-> "dir", files |-> StaleFiles]
    /\ tasks # <<>>
    /\ dir.files["old/f"] = ""
    /\ dir.files["a/x"] \notin {"", "old"}

(***************************************************************************)
(* ensure_empty_dir called repeatedly on one path (main.rs 44-62)          *)
(***************************************************************************)
\* Calls of ensure_empty_dir in a row.
MaxCalls == 2

\* What a run may find at the path: nothing, a file, or a directory with any
\* leftover content, stale or unpacked from an archive.
AnyDirs ==
    {AbsentDir, [kind |-> "file", files |-> NoFiles]} \cup
    {[kind |-> "dir", files |-> f] : f \in [Paths -> {"", "old", "A"}]}

InitEnsure ==
    /\ opts = [config_location |-> FALSE, cmd |-> NoCmd]
    /\ pc = "loaded"
    /\ file = YamlFile(<<"/", "srv", "plugins">>, <<>>)
    /\ file0 = file
    /\ config = get_config(file)
    /\ dir \in AnyDirs
    /\ dir0 = dir
    /\ tasks = <<>>
    /\ joinIdx = 1
    /\ result = NoResult
    /\ exit = Exit(-1, "none")
    /\ out = {}
    /\ errOrder = <<>>
    /\ log = <<>>

\* main.rs 54-62: one more call of ensure_empty_dir on the path, returning Ok.
CallEnsureEmptyDir ==
    /\ Len(log) < MaxCalls
    /\ dir' = ensure_empty_dir(dir)
    /\ log' = Append(log, "reset")
    /\ UNCHANGED <<opts, dir0, pc, file, file0, config, tasks, joinIdx, result, exit,
                   out, errOrder>>

SpecEnsure == InitEnsure /\ [][CallEnsureEmptyDir]_vars

\* C11: whatever was at the path (nothing, a file, an empty directory, a
\* directory with content), after a call of ensure_empty_dir that returned Ok
\* the path is an empty directory, and after a second call it is again.
C11_EnsureEmptyDirIdempotent ==
    Len(log) >= 1 => (dir.kind = "dir" /\ \A p \in Paths : dir.files[p] = "")

C11_Witness ==
    /\ Len(log) = 2
    /\ dir0.kind = "dir" /\ dir0.files["old/f"] = "old" /\ dir0.files["a/x"] = "A"
    /\ dir = EmptyDir

(***************************************************************************)
(* The Config Store and the Plugin Spec on a wider range of config files   *)
(* and subcommands: get_config, push, save, and the URLs install_plugin    *)
(* formats.                                                                *)
(***************************************************************************)
\* --provider as typed on the command line.
ProviderArgs == {"github", "bitbucket"}

\* Every shape of Plugin Spec: either provider, with and without git_ref, and
\* an archive.
AllPlugins ==
    {GitRepo(from_str(a)[1], "u", "a", g) : a \in ProviderArgs, g \in {None, Some("v1")}}
        \cup {CmdTar}

\* plugin_dir values: the marker alone, the marker first, a component that
\* only begins with ~, no marker, the marker at a later position.
AllPluginDirs ==
    {<<"~">>, <<"~", "plugins">>, <<"~foo", "plugins">>, <<"/", "srv", "plugins">>,
     <<"srv", "~", "plugins">>}

\* The config file of the documented example.
DocFile ==
    YamlFile(<<"~", ".local", "share", "strand", "plugins">>,
             <<EntryDoc,
               [provider |-> None, user |-> None, repo |-> None, git_ref |-> None,
                url |-> Some("https://example.com/archive.tar.gz")]>>)

InitStore ==
    /\ opts \in [config_location : {FALSE}, cmd : AllPlugins]
    /\ pc = "start"
    /\ file \in {DocFile} \cup
                {YamlFile(d, ps) :
                    d \in AllPluginDirs,
                    ps \in SeqsUpTo({SerializePlugin(p) : p \in AllPlugins}, MaxPlugins)}
    /\ file0 = file
    /\ config = NoConfig
    /\ dir = EmptyDir
    /\ dir0 = dir
    /\ tasks = <<>>
    /\ joinIdx = 1
    /\ result = NoResult
    /\ exit = Exit(-1, "none")
    /\ out = {}
    /\ errOrder = <<>>
    /\ log = <<>>

\* lib.rs 163: install_plugin formats the URL of each plugin of the list.
FormatUrls ==
    /\ Running /\ pc = "saved" /\ out = {}
    /\ out' = {Display(config.plugins[i]) : i \in 1..Len(config.plugins)}
    /\ UNCHANGED <<opts, dir0, pc, file, file0, config, dir, tasks, joinIdx, result,
                   exit, errOrder, log>>

NextStore ==
    \/ GetConfigDirOk
    \/ GetConfigOk
    \/ GetConfigErr
    \/ GetConfigHomeExit
    \/ PushPlugin
    \/ WriteConfigOk
    \/ FormatUrls

SpecStore == InitStore /\ [][NextStore]_vars

\* C12: once the config with the pushed plugin is saved, loading the file
\* gives the plugin list that was loaded at the start followed by the plugin
\* of the subcommand: same order, same variants and fields, duplicates kept.
C12_AppendRoundTrip ==
    Happened("write") =>
        /\ Parses(file)
        /\ get_config(file).plugins = Append(get_config(file0).plugins, opts.cmd)
        /\ Len(get_config(file).plugins) = Len(file0.plugins) + 1

C12_Witness ==
    /\ Happened("write")
    /\ Len(file0.plugins) = 2
    /\ \E i \in 1..2 : get_config(file0).plugins[i] = opts.cmd
    /\ opts.cmd.tag = "Git" /\ opts.cmd.git_ref = None
    /\ get_config(file).plugins[3] = opts.cmd


\* C13: a save never stores the expanded plugin_dir: after a run that loaded
\* a plugin_dir starting with ~ and saved, the file still has the ~ form.
C13_ExpansionNeverPersisted ==
    (Happened("write") /\ StartsWithTilde(file0.plugin_dir)) =>
        file.plugin_dir = file0.plugin_dir

\* The URL table of the providers.
TableUrl(p) ==
    LET ref == IF Len(p.git_ref) = 1 THEN p.git_ref[1] ELSE "master"
    IN  CASE p.tag = "Git" /\ p.provider = "GitHub" ->
               <<"https://codeload.github.com/", p.user, "/", p.repo, "/tar.gz/", ref>>
          [] p.tag = "Git" /\ p.provider = "Bitbucket" ->
               <<"https://bitbucket.org/", p.user, "/", p.repo, "/get/", ref, ".tar.gz">>
          [] p.tag = "Archive" -> <<p.url>>

\* C14: the URL formatted for each plugin of the list is the one the provider
\* table gives: the explicit git_ref verbatim, master when there is none, and
\* the url of an archive plugin unchanged.
C14_UrlTable ==
    out # {} => out = {TableUrl(config.plugins[i]) : i \in 1..Len(config.plugins)}

C14_Witness ==
    /\ <<"https://codeload.github.com/", "u", "/", "a", "/tar.gz/", "master">> \in out
    /\ <<"https://bitbucket.org/", "u", "/", "a", "/get/", "v1", ".tar.gz">> \in out
    /\ <<"https://host/t.tar.gz">> \in out

\* C15: get_config's expansion of plugin_dir replaces a first component that
\* is exactly ~ by the home directory and keeps the other components in
\* order; any other path, ~foo first or ~ later included, is unchanged.
C15_ExpandPath ==
    LET path == file0.plugin_dir
    IN  config.loaded =>
            /\ (Len(path) >= 1 /\ path[1] = "~") =>
                 config.plugin_dir = HomeDir \o SubSeq(path, 2, Len(path))
            /\ ~(Len(path) >= 1 /\ path[1] = "~") => config.plugin_dir = path
            /\ path = <<"~">> => config.plugin_dir = HomeDir
            /\ path = <<"~foo", "plugins">> => config.plugin_dir = path
            /\ path = <<"srv", "~", "plugins">> => config.plugin_dir = path

C15_Witness ==
    /\ config.loaded
    /\ file0.plugin_dir = <<"~foo", "plugins">>
    /\ config.plugin_dir = <<"~foo", "plugins">>

\* C16: loading the config file of the documented example succeeds and gives
\* a GitRepo of provider GitHub and an ArchivePlugin.
C16_DocumentedExampleLoads ==
    (file0 = DocFile /\ (Happened("read") \/ Happened("read_err"))) =>
        /\ ~Happened("read_err")
        /\ config.loaded
        /\ Len(config.plugins) >= 2
        /\ config.plugins[1] = GitRepo("GitHub", "someuser", "somerepo", Some("main"))
        /\ config.plugins[2] = ArchivePlugin("https://example.com/archive.tar.gz")


(***************************************************************************)
(* Shared paths, no rollback, termination (lib.rs 160-218, main.rs 32-39)  *)
(***************************************************************************)
\* Tasks i and j are the only ones whose archives have path p.
SharedByOnly(p, i, j) ==
    /\ i # j
    /\ p \in PathsOf(i) \cap PathsOf(j)
    /\ \A m \in 1..Len(tasks) : p \in PathsOf(m) => m \in {i, j}

\* The data the archive of task i has for path p.
DataOf(i, p) == {ArchiveOf(i)[n].data : n \in {m \in 1..Len(ArchiveOf(i)) : ArchiveOf(i)[m].path = p}}

\* A task with an entry left to unpack can unpack it, whatever the directory
\* holds at the entry's path; a path shared by two finished tasks holds the
\* data of one of them.
C17_State ==
    /\ \A i \in 1..Len(tasks) :
         (/\ Running /\ tasks[i].st = "unpacking"
          /\ tasks[i].k < Len(ArchiveOf(i)))
         => ENABLED UnpackEntry(i)
    /\ \A i, j \in 1..Len(tasks) :
         (tasks[i].st = "ok" /\ tasks[j].st = "ok") =>
             \A p \in Paths :
                 SharedByOnly(p, i, j) => dir.files[p] \in DataOf(i, p) \cup DataOf(j, p)

\* A task that unpacks an entry leaves the entry's data at its path.
C17_Step ==
    \A i \in 1..Len(tasks) :
        (Len(tasks') = Len(tasks) /\ tasks'[i].k = tasks[i].k + 1) =>
            LET entry == ArchiveOf(i)[tasks[i].k + 1]
            IN  dir'.files[entry.path] = entry.data

\* C17: a path that two archives share is not detected: the task that comes
\* to it unpacks over what is there and neither task fails because of it, in
\* every interleaving; once both have finished the path holds the data of
\* one of the two.
C17_SharedPathOverwritten == []C17_State /\ [][C17_Step]_vars

C17_Witness ==
    /\ exit = Exit(0, "main")
    /\ \E i, j \in 1..Len(tasks) :
         /\ SharedByOnly("a/x", i, j)
         /\ tasks[i].st = "ok" /\ tasks[j].st = "ok"
    /\ dir.files["a/x"] = "T"
    /\ dir.files["a/y"] = "A"

\* C18: in a run with a subcommand whose save succeeded, the config file has
\* the appended plugin as its last entry from the save on, and at the end of
\* the run for every outcome of the reset and of the tasks.
C18_NoRollback ==
    (opts.cmd # NoCmd /\ Happened("write")) =>
        /\ file # file0
        /\ Parses(file)
        /\ LET saved == get_config(file).plugins
           IN  saved # <<>> /\ saved[Len(saved)] = opts.cmd
        /\ Terminated => file = to_string(config)

C18_Witness ==
    /\ opts.cmd # NoCmd /\ Happened("write")
    /\ exit = Exit(1, "install_plugin")
    /\ FetchFailed(Len(tasks))
    /\ tasks[Len(tasks)].plugin = opts.cmd
    /\ get_config(file).plugins[Len(tasks)] = opts.cmd

\* The run ended because a fetch or an extraction failed.
InstallFailed ==
    \/ exit = Exit(1, "install_plugin")
    \/ exit = Exit(1, "main") /\ pc = "returned" /\ result.tag = "err"

\* Path p holds the data of an entry some task has unpacked.
UnpackedByTask(p) ==
    \E i \in 1..Len(tasks) :
        \E n \in 1..tasks[i].k :
            ArchiveOf(i)[n] = [path |-> p, data |-> dir.files[p]]

\* C19: when the run ends because a fetch or an extraction failed, the
\* plugin directory is a directory that holds nothing of what it held before
\* the run: every path in it holds data of an entry a task had unpacked by
\* then, and every unpacked entry's path is there.
C19_FailedInstallWiped ==
    InstallFailed =>
        /\ dir.kind = "dir"
        /\ \A p \in Paths : dir.files[p] # "" => UnpackedByTask(p)
        /\ \A i \in 1..Len(tasks) :
             \A n \in 1..tasks[i].k : dir.files[ArchiveOf(i)[n].path] # ""

C19_Witness ==
    /\ InstallFailed
    /\ dir0 = [kind |-> "dir", files |-> StaleFiles]
    /\ \E i \in 1..Len(tasks) : tasks[i].k = 1 /\ Len(ArchiveOf(i)) = 2
    /\ \E i \in 1..Len(tasks) : tasks[i].st = "fetching"
    /\ dir.files["a/x"] = "A" /\ dir.files["a/y"] = "" /\ dir.files["old/f"] = ""


\* The steps of main and of install_plugins' loop.
MainStep ==
    \/ GetConfigDirOk \/ GetConfigDirExit \/ ConfigLocation
    \/ GetConfigOk \/ GetConfigErr \/ GetConfigHomeExit
    \/ PushPlugin \/ WriteConfigOk \/ WriteConfigErr
    \/ EnsureEmptyDirOk \/ EnsureEmptyDirRemoveErr \/ EnsureEmptyDirCreateErr
    \/ SpawnTask \/ AwaitOk \/ AwaitErr \/ InstallPluginsOk \/ MainReturn

\* The steps of the task spawned for plugin i.
TaskStep(i) ==
    /\ i \in 1..Len(tasks)
    /\ \/ FetchOk(i) \/ FetchExit(i)
       \/ UnpackEntry(i) \/ UnpackErr(i) \/ InstallPluginOk(i)

\* The executor runs main and every spawned task: none that can take a step
\* is left waiting forever, so every fetch and every extraction finishes.
\* The runs that start with a plugin directory left by an earlier install
\* and a config file, if any, whose plugin_dir is below the home directory.
InitFair ==
    /\ Init
    /\ dir = [kind |-> "dir", files |-> StaleFiles]
    /\ file.state = "yaml" => StartsWithTilde(file.plugin_dir)

FairSpec ==
    /\ InitFair /\ [][Next]_vars
    /\ WF_vars(MainStep)
    /\ \A i \in 1..(MaxPlugins + 1) : WF_vars(TaskStep(i))

\* C20: under fair scheduling, once install_plugins has been called it
\* returns or the process exits.
C20_InstallTerminates ==
    (pc = "install") ~> (pc = "returned" \/ Terminated)

C20_Witness ==
    /\ pc = "returned" /\ result.tag = "ok"
    /\ Len(tasks) = MaxPlugins + 1
    /\ joinIdx = Len(tasks) + 1

====
